---- MODULE Spec2Model ----
(***************************************************************************)
(* A model of dep_tools/Processor.py: the per-tile scene pipeline          *)
(* (Processor.process_by_scene), the output path resolver                  *)
(* (Processor.get_path), the mosaic builder (Processor.mosaic_scenes), the *)
(* tile pyramid generator (Processor.create_tiles) and run_processor.      *)
(*                                                                         *)
(* Strings are sequences of one-character strings, so that formatting,     *)
(* joining and prefix tests are computed character by character.           *)
(***************************************************************************)
EXTENDS Integers, Sequences, FiniteSets, TLC

VARIABLES
    self,          \* the Processor's configuration fields (dataclass fields)
    world,         \* per tile: what the scene search / transform give (external)
    pc,            \* process_by_scene: position in the loop body
    idx,           \* process_by_scene: position in aoi_by_tile.iterrows()
    results,       \* process_by_scene: the local `results`
    k,             \* process_by_scene: position in `for result in results`
    blobs,         \* the storage container: blob name -> [data, etag]
    writes,        \* log of write_to_blob_storage calls
    status,        \* per tile: how its iteration ended (observer)
    raised,        \* the exception that left process_by_scene, if any
    run,           \* which invocation of process_by_scene this is
    inA, inB,      \* get_path: two inputs (index, year, variable)
    pathA, pathB,  \* get_path: the two results
    margs,         \* per mosaic_scenes invocation: its arguments
    mpc,           \* per mosaic_scenes invocation: its position
    mosaic_on_disk,\* whether self.mosaic_file is a file, and what it holds
    targs,         \* create_tiles: its argument remake_mosaic
    tpc,           \* create_tiles: its position
    scratch,       \* the files under data/tiles/{prefix} on the local disk
    remote,        \* blob names uploaded by copy_to_blob_storage
    tlog,          \* create_tiles: the upload / unlink events; ok: the file was on
                   \* disk when uploaded, was uploaded when unlinked
    walk,          \* create_tiles: the rglob iteration state
    rargs,         \* run_processor: run_scenes, mosaic, tile, remake_mosaic_for_tiles
    rpc,           \* run_processor: its position
    client         \* run_processor: the dask client process_by_scene runs under

pipeVars == <<world, pc, idx, results, k, blobs, writes, status, raised, run>>
pathVars == <<inA, inB, pathA, pathB>>
mosaicVars == <<margs, mpc, mosaic_on_disk>>
tileVars == <<targs, tpc, scratch, remote, tlog, walk>>
runVars == <<rargs, rpc, client>>
vars == <<self, pipeVars, pathVars, mosaicVars, tileVars, runVars>>

(***************************************************************************)
(* Python values: None, a str, or the str() of a list of str.              *)
(***************************************************************************)
None == [kind |-> "None", val |-> <<>>]
Str(s) == [kind |-> "str", val |-> s]

Digit(d) ==
    CASE d = 0 -> "0" [] d = 1 -> "1" [] d = 2 -> "2" [] d = 3 -> "3"
      [] d = 4 -> "4" [] d = 5 -> "5" [] d = 6 -> "6" [] d = 7 -> "7"
      [] d = 8 -> "8" [] d = 9 -> "9"

RECURSIVE str_int(_)
\* str(i) of a non-negative int
str_int(n) == IF n < 10 THEN <<Digit(n)>> ELSE str_int(n \div 10) \o <<Digit(n % 10)>>

RECURSIVE join(_, _)
\* sep.join(parts)
join(sep, parts) ==
    IF Len(parts) = 0 THEN <<>>
    ELSE IF Len(parts) = 1 THEN parts[1]
    ELSE parts[1] \o sep \o join(sep, Tail(parts))

\* str() of a list of str, as an f-string renders it: ['a', 'b']
repr_list(labels) ==
    <<"[">> \o join(<<",", " ">>, [i \in 1..Len(labels) |-> <<"'">> \o labels[i] \o <<"'">>])
            \o <<"]">>
List(labels) == [kind |-> "list", val |-> repr_list(labels)]

startswith(s, p) == Len(p) <= Len(s) /\ SubSeq(s, 1, Len(p)) = p

RECURSIVE split(_, _)
\* s.split(sep) for a one-character sep: the parts of a path
split(s, sep) ==
    IF \A i \in 1..Len(s) : s[i] # sep THEN <<s>>
    ELSE LET i == CHOOSE j \in 1..Len(s) : s[j] = sep /\ \A h \in 1..(j - 1) : s[h] # sep
         IN <<SubSeq(s, 1, i - 1)>> \o split(SubSeq(s, i + 1, Len(s)), sep)

(***************************************************************************)
(* Processor.__post_init__ and Processor.get_path                          *)
(***************************************************************************)
\* truthiness of self.year: None and '' are false
truthy(v) == v # None /\ Len(v.val) > 0

prefix ==
    IF truthy(self.year)
    THEN self.dataset_id \o <<"/">> \o self.year.val \o <<"/">>
             \o self.dataset_id \o <<"_">> \o self.year.val
    ELSE self.dataset_id \o <<"/">> \o self.dataset_id

\* [str(i) for i in index]
suffix_parts(index) == [i \in 1..Len(index) |-> str_int(index[i])]
\* the tile components joined with nothing between them
suffix_nosep(index) == join(<<>>, suffix_parts(index))
\* suffix = "_".join([str(i) for i in index])
suffix(index) == join(<<"_">>, suffix_parts(index))

get_path(index, year, variable) ==
    LET variable1 == IF variable = None THEN Str(self.dataset_id) ELSE variable
        year1 == IF year = None THEN self.year ELSE year
    IN  IF year1 # None
        THEN self.dataset_id \o <<"/">> \o year1.val \o <<"/">> \o variable1.val \o <<"_">>
                 \o year1.val \o <<"_">> \o suffix(index) \o <<".", "t", "i", "f">>
        ELSE self.dataset_id \o <<"/">> \o variable1.val \o <<"_">> \o suffix(index)
                 \o <<".", "t", "i", "f">>

(***************************************************************************)
(* The labelled arrays the pipeline handles (xarray Dataset / DataArray).  *)
(* Pixel values are not modelled: an object is its type, its time and      *)
(* variable coordinates (absent, a scalar label, or a dimension with its   *)
(* labels) and, for a Dataset, the names of its data variables.  The two   *)
(* spatial dimensions y and x are always present.                          *)
(***************************************************************************)
MaxT == 2
MaxV == 2

\* the grid: Processor.aoi_by_tile, indexed by (PATH, ROW)
aoi_by_tile == << <<1, 11>>, <<11, 1>> >>
Tiles == 1..Len(aoi_by_tile)

TimeLabel(i) == str_int(2018 + i)
VarName(j) == <<"b">> \o str_int(j)

Absent == [kind |-> "absent", labels |-> <<>>]
Scalar(label) == [kind |-> "scalar", labels |-> <<label>>]
Dim(labels) == [kind |-> "dim", labels |-> labels]

\* what scene_processor returns for T time labels (0: no time dimension) and
\* V data variables
Dataset(T, V) ==
    [type |-> "Dataset",
     time |-> IF T = 0 THEN Absent ELSE Dim([i \in 1..T |-> TimeLabel(i)]),
     variable |-> Absent,
     data_vars |-> [j \in 1..V |-> VarName(j)]]

\* ds.sel(time=label)
sel_time(obj, label) == [obj EXCEPT !.time = Scalar(label)]
\* ds.to_array(): the data variables become the dimension "variable"
to_array(ds) ==
    [type |-> "DataArray", time |-> ds.time, variable |-> Dim(ds.data_vars),
     data_vars |-> <<>>]
\* da.sel(variable=var)
sel_variable(da, var) == [da EXCEPT !.variable = Scalar(var)]
\* obj.squeeze(): dimensions of length one become scalar coordinates
squeeze_coord(c) == IF c.kind = "dim" /\ Len(c.labels) = 1 THEN Scalar(c.labels[1]) ELSE c
squeeze(obj) ==
    [obj EXCEPT !.time = squeeze_coord(obj.time), !.variable = squeeze_coord(obj.variable)]
\* the dimension names of an object (Dataset.dims.keys())
dims(obj) ==
    {"y", "x"} \cup (IF obj.time.kind = "dim" THEN {"time"} ELSE {})
               \cup (IF obj.variable.kind = "dim" THEN {"variable"} ELSE {})
\* results.to_array(dim="variables").stack(z=["time", "variables"])
\*     .to_dataset(dim="z").pipe(rename "_".join(name)).drop_vars(...)
flatten(ds) ==
    LET T == Len(ds.time.labels)
        V == Len(ds.data_vars)
    IN  [type |-> "Dataset", time |-> Absent, variable |-> Absent,
         data_vars |-> [n \in 1..(T * V) |->
             join(<<"_">>, <<ds.time.labels[((n - 1) \div V) + 1],
                            ds.data_vars[((n - 1) % V) + 1]>>)]]
\* result.coords[name].values.tolist() if name in result.coords else None
coord_value(c) ==
    IF c.kind = "absent" THEN None
    ELSE IF c.kind = "scalar" THEN Str(c.labels[1]) ELSE List(c.labels)

\* the local `results`: None, one object, or a list of objects
ResultsNone == [kind |-> "None", items |-> <<>>]
One(obj) == [kind |-> "one", items |-> <<obj>>]
ListOf(objs) == [kind |-> "list", items |-> objs]

\* [results.sel(time=year) for year in results.coords["time"]]
split_by_year(res) ==
    LET ds == res.items[1]
    IN  ListOf([i \in 1..Len(ds.time.labels) |-> sel_time(ds, ds.time.labels[i])])

\* the variable split that keeps only the first variable of each result
split_first_variable(res) ==
    ListOf([n \in 1..Len(res.items) |->
        sel_variable(to_array(res.items[n]), res.items[n].data_vars[1])])

\* [result.to_array().sel(variable=var) for result in results for var in result]
\* or, for one Dataset, [results.to_array().sel(variable=var) for var in results]
split_by_variable(res) ==
    LET V == Len(res.items[1].data_vars)
    IN  ListOf([n \in 1..(Len(res.items) * V) |->
            LET r == res.items[((n - 1) \div V) + 1]
            IN  sel_variable(to_array(r), r.data_vars[((n - 1) % V) + 1])])

(***************************************************************************)
(* Storage: the container's blobs and utils.write_to_blob_storage          *)
(***************************************************************************)
exists(name) == \E b \in blobs : b.name = name

\* write_to_blob_storage(d, path, overwrite=...): an existing destination is
\* left untouched unless overwrite; etag stamps the write that stored a blob
write_to_blob_storage(d, path, overwrite) ==
    LET stored == overwrite \/ ~exists(path)
        etag == Len(writes) + 1
    IN  /\ writes' = Append(writes,
               [run |-> run, tile |-> idx, path |-> path, d |-> d, stored |-> stored])
        /\ blobs' = IF stored
                    THEN {b \in blobs : b.name # path}
                             \cup {[name |-> path, d |-> d, etag |-> etag]}
                    ELSE blobs

(***************************************************************************)
(* Processor.process_by_scene: one action per statement of the loop body.  *)
(* Any call from get_stack to write_to_blob_storage may raise; the method  *)
(* has no try/except, so the exception leaves process_by_scene.            *)
(***************************************************************************)
NoException == [tile |-> 0, step |-> "none", exc |-> "none"]
Exceptions == {"ValueError", "Exception"}

UnknownScenes == [items |-> "unknown", kind |-> "unknown", T |-> 0, V |-> 0]

\* the emptiness test that never finds the collection empty
never_empty(items) == FALSE
\* len(item_collection) == 0
is_empty(items) == items = "empty"

\* results is None
is_none(res) == res.kind = "None"

\* the overwrite argument that ignores self.overwrite
overwrite_always == TRUE
\* the overwrite argument of both write_to_blob_storage calls: self.overwrite
overwrite_arg == self.overwrite

\* the exception leaves process_by_scene
propagate(step, exc) ==
    /\ raised' = [tile |-> idx, step |-> step, exc |-> exc]
    /\ pc' = "raised"

\* `continue`, or the end of the loop body: on to the next row of the grid
next_tile ==
    /\ idx' = idx + 1
    /\ pc' = "loop"

\* item_collection_for_pathrow(...); if len(item_collection) == 0: continue
ItemCollection ==
    /\ pc = "loop" /\ idx <= Len(aoi_by_tile)
    /\ \E items \in (IF world[idx].items = "unknown" THEN {"empty", "found"}
                     ELSE {world[idx].items}) :
          /\ world' = [world EXCEPT ![idx].items = items]
          /\ status' = [status EXCEPT ![idx] = items]
          /\ IF is_empty(items)
             THEN next_tile
             ELSE pc' = "get_stack" /\ idx' = idx
    /\ UNCHANGED <<self, results, k, blobs, writes, raised, run>>
    /\ UNCHANGED <<pathVars, mosaicVars, tileVars, runVars>>

\* item_xr = self.get_stack(item_collection, these_areas); stackstac refuses
\* an empty collection
GetStack ==
    /\ pc = "get_stack"
    /\ IF status[idx] = "empty"
       THEN propagate("get_stack", "ValueError") /\ UNCHANGED idx
       ELSE pc' = "mask_clouds" /\ UNCHANGED <<idx, raised>>
    /\ UNCHANGED <<self, world, results, k, blobs, writes, status, run>>
    /\ UNCHANGED <<pathVars, mosaicVars, tileVars, runVars>>

\* item_xr = mask_clouds(item_xr)
MaskClouds ==
    /\ pc = "mask_clouds"
    /\ pc' = "scale_and_offset"
    /\ UNCHANGED <<self, world, idx, results, k, blobs, writes, status, raised, run>>
    /\ UNCHANGED <<pathVars, mosaicVars, tileVars, runVars>>

\* if self.scale_and_offset: item_xr = scale_and_offset(item_xr, ...)
ScaleAndOffset ==
    /\ pc = "scale_and_offset"
    /\ pc' = "scene_processor"
    /\ UNCHANGED <<self, world, idx, results, k, blobs, writes, status, raised, run>>
    /\ UNCHANGED <<pathVars, mosaicVars, tileVars, runVars>>

\* results = self.scene_processor(item_xr, ...); if results is None: continue
SceneProcessor ==
    /\ pc = "scene_processor"
    /\ \E r \in (IF world[idx].kind = "unknown"
                 THEN {[kind |-> "None", T |-> 0, V |-> 0]}
                      \cup {[kind |-> "Dataset", T |-> T, V |-> V] :
                               T \in 0..MaxT, V \in 1..MaxV}
                 ELSE {[kind |-> world[idx].kind, T |-> world[idx].T, V |-> world[idx].V]}) :
          LET res == IF r.kind = "None" THEN ResultsNone ELSE One(Dataset(r.T, r.V))
          IN  /\ world' = [world EXCEPT ![idx].kind = r.kind, ![idx].T = r.T, ![idx].V = r.V]
              /\ status' = [status EXCEPT ![idx] = IF r.kind = "None" THEN "none" ELSE "result"]
              /\ results' = res
              /\ IF is_none(res)
                 THEN next_tile
                 ELSE pc' = "scale_to_int16" /\ idx' = idx
    /\ UNCHANGED <<self, k, blobs, writes, raised, run>>
    /\ UNCHANGED <<pathVars, mosaicVars, tileVars, runVars>>

\* if self.convert_output_to_int16: results = scale_to_int16(results, ...)
ScaleToInt16 ==
    /\ pc = "scale_to_int16"
    /\ IF self.convert_output_to_int16 /\ results.kind = "None"
       THEN propagate("scale_to_int16", "Exception")
       ELSE pc' = "split_by_year" /\ UNCHANGED raised
    /\ UNCHANGED <<self, world, idx, results, k, blobs, writes, status, run>>
    /\ UNCHANGED <<pathVars, mosaicVars, tileVars, runVars>>

\* if self.split_output_by_year:
\*     results = [results.sel(time=year) for year in results.coords["time"]]
\* (no "time" coordinate: KeyError; None has no coords: AttributeError)
SplitByYear ==
    /\ pc = "split_by_year"
    /\ IF ~self.split_output_by_year
       THEN pc' = "split_by_variable" /\ UNCHANGED <<results, raised>>
       ELSE IF results.kind = "None" \/ results.items[1].time.kind = "absent"
       THEN propagate("split_by_year", "Exception") /\ UNCHANGED results
       ELSE /\ results' = split_by_year(results)
            /\ pc' = "split_by_variable"
            /\ UNCHANGED raised
    /\ UNCHANGED <<self, world, idx, k, blobs, writes, status, run>>
    /\ UNCHANGED <<pathVars, mosaicVars, tileVars, runVars>>

\* if self.split_output_by_variable: results = [... .to_array().sel(variable=var) ...]
SplitByVariable ==
    /\ pc = "split_by_variable"
    /\ IF ~self.split_output_by_variable
       THEN pc' = "write" /\ UNCHANGED <<results, raised>>
       ELSE IF results.kind = "None"
       THEN propagate("split_by_variable", "Exception") /\ UNCHANGED results
       ELSE /\ results' = split_by_variable(results)
            /\ pc' = "write"
            /\ UNCHANGED raised
    /\ k' = 1
    /\ UNCHANGED <<self, world, idx, blobs, writes, status, run>>
    /\ UNCHANGED <<pathVars, mosaicVars, tileVars, runVars>>

\* the end of a tile's writes: the loop body is over
tile_written ==
    /\ status' = [status EXCEPT ![idx] = "written"]
    /\ next_tile

\* if isinstance(results, List): for result in results: ... write_to_blob_storage(
\*     result, path=self.get_path(index, time, variable), ...): one iteration
WriteListItem ==
    /\ pc = "write" /\ results.kind = "list" /\ k <= Len(results.items)
    /\ LET result == results.items[k]
           time == coord_value(result.time)
           variable == coord_value(result.variable)
       IN  write_to_blob_storage(result, get_path(aoi_by_tile[idx], time, variable),
                                 overwrite_arg)
    /\ IF k = Len(results.items)
       THEN tile_written /\ k' = 1
       ELSE k' = k + 1 /\ UNCHANGED <<pc, idx, status>>
    /\ UNCHANGED <<self, world, results, raised, run>>
    /\ UNCHANGED <<pathVars, mosaicVars, tileVars, runVars>>

\* else: if len(results.dims.keys()) > 2: results = <flattened>;
\*     write_to_blob_storage(results.squeeze(), path=self.get_path(index), ...)
WriteSingle ==
    /\ pc = "write" /\ results.kind # "list"
    /\ IF results.kind = "None"
       THEN /\ propagate("write", "Exception")
            /\ UNCHANGED <<idx, results, blobs, writes, status>>
       ELSE LET r == results.items[1]
                flat == IF Cardinality(dims(r)) > 2 THEN flatten(r) ELSE r
            IN  /\ results' = One(flat)
                /\ write_to_blob_storage(squeeze(flat),
                       get_path(aoi_by_tile[idx], None, None), overwrite_arg)
                /\ tile_written
                /\ UNCHANGED raised
    /\ UNCHANGED <<self, world, k, run>>
    /\ UNCHANGED <<pathVars, mosaicVars, tileVars, runVars>>

\* whether the statement at pc makes a call (a step a flag turns off calls nothing)
calls(step) ==
    CASE step = "get_stack" -> TRUE
      [] step = "mask_clouds" -> TRUE
      [] step = "scale_and_offset" -> self.scale_and_offset
      [] step = "scene_processor" -> TRUE
      [] step = "scale_to_int16" -> self.convert_output_to_int16
      [] step = "split_by_year" -> self.split_output_by_year
      [] step = "split_by_variable" -> self.split_output_by_variable
      [] step = "write" -> TRUE
      [] OTHER -> FALSE

\* the call at pc raises: nothing in process_by_scene catches it
Raise ==
    /\ calls(pc)
    /\ \E exc \in Exceptions : propagate(pc, exc)
    /\ UNCHANGED <<self, world, idx, results, k, blobs, writes, status, run>>
    /\ UNCHANGED <<pathVars, mosaicVars, tileVars, runVars>>

\* the for loop is exhausted: process_by_scene returns
Return ==
    /\ pc = "loop" /\ idx > Len(aoi_by_tile)
    /\ pc' = "returned"
    /\ UNCHANGED <<self, world, idx, results, k, blobs, writes, status, raised, run>>
    /\ UNCHANGED <<pathVars, mosaicVars, tileVars, runVars>>

\* process_by_scene is called: the loop starts at the first row
call_process_by_scene ==
    /\ pc' = "loop"
    /\ idx' = 1
    /\ k' = 1
    /\ results' = ResultsNone
    /\ status' = [t \in Tiles |-> "pending"]
    /\ raised' = NoException

ProcessByScene ==
    \/ ItemCollection \/ GetStack \/ MaskClouds \/ ScaleAndOffset \/ SceneProcessor
    \/ ScaleToInt16 \/ SplitByYear \/ SplitByVariable \/ WriteListItem \/ WriteSingle
    \/ Raise \/ Return

(***************************************************************************)
(* Configurations and idle values                                          *)
(***************************************************************************)
DatasetId == <<"n", "d">>
Year == str_int(2020)

\* the Processor objects considered: dataset "nd", year None or "2020", every
\* combination of the flags the pipeline branches on
Processors ==
    [dataset_id : {DatasetId},
     year : {None, Str(Year)},
     overwrite : BOOLEAN,
     split_output_by_year : BOOLEAN,
     split_output_by_variable : BOOLEAN,
     scale_and_offset : BOOLEAN,
     convert_output_to_int16 : BOOLEAN]

\* the dataclass defaults, for a given year
DefaultProcessor(year) ==
    [dataset_id |-> DatasetId, year |-> year, overwrite |-> FALSE,
     split_output_by_year |-> FALSE, split_output_by_variable |-> FALSE,
     scale_and_offset |-> TRUE, convert_output_to_int16 |-> TRUE]

NoInput == [index |-> <<>>, year |-> None, variable |-> None]

IdlePipe ==
    /\ world = [t \in Tiles |-> UnknownScenes]
    /\ pc = "idle" /\ idx = 1 /\ k = 1
    /\ results = ResultsNone
    /\ blobs = {} /\ writes = <<>>
    /\ status = [t \in Tiles |-> "pending"]
    /\ raised = NoException
    /\ run = 1
IdlePath == inA = NoInput /\ inB = NoInput /\ pathA = <<>> /\ pathB = <<>>

(***************************************************************************)
(* Processor.mosaic_scenes.  Each invocation is a separate call, possibly  *)
(* in a separate process; invocation 1 is also the one create_tiles and    *)
(* run_processor make.                                                     *)
(***************************************************************************)
Invocations == {1, 2}

\* def build_vrt(self, bounds: List[float]): the parameters after self
build_vrt_params == <<"bounds">>
\* vrt_file = self.build_vrt(): the arguments the call passes
build_vrt_args == <<>>
\* Python binds a call's arguments when every parameter without a default gets one
binds(params, args) == Len(args) = Len(params)

call_mosaic_scenes(i, scale_factor, overwrite) ==
    /\ margs' = [margs EXCEPT ![i] = [scale_factor |-> scale_factor, overwrite |-> overwrite]]
    /\ mpc' = [mpc EXCEPT ![i] = "call"]

\* if not Path(self.mosaic_file).is_file() or overwrite: ... (else: return)
MosaicCheck(i) ==
    /\ mpc[i] = "call"
    /\ mpc' = [mpc EXCEPT ![i] =
           IF mosaic_on_disk = "absent" \/ margs[i].overwrite THEN "build_vrt" ELSE "returned"]
    /\ UNCHANGED <<margs, mosaic_on_disk>>
    /\ UNCHANGED <<self, pipeVars, pathVars, tileVars, runVars>>

\* vrt_file = self.build_vrt(): the call gives `bounds` no value, so Python raises
\* TypeError before build_vrt's body runs; nothing in mosaic_scenes catches it
BuildVrt(i) ==
    /\ mpc[i] = "build_vrt"
    /\ mpc' = [mpc EXCEPT ![i] =
           IF binds(build_vrt_params, build_vrt_args) THEN "to_raster" ELSE "raised"]
    /\ UNCHANGED <<margs, mosaic_on_disk>>
    /\ UNCHANGED <<self, pipeVars, pathVars, tileVars, runVars>>

MosaicScenes == \E i \in Invocations : MosaicCheck(i) \/ BuildVrt(i)

IdleMosaic ==
    /\ margs = [i \in Invocations |-> [scale_factor |-> "None", overwrite |-> TRUE]]
    /\ mpc = [i \in Invocations |-> "idle"]

(***************************************************************************)
(* Processor.create_tiles and Processor.copy_to_blob_storage               *)
(***************************************************************************)
max_zoom == 11
MaxTilesPerZoom == 2

Zooms == 0..max_zoom
\* the tile files gdal2tiles renders when every zoom level has n columns
Pyramid(n) == {[z |-> z, x |-> x] : z \in Zooms, x \in 0..(n - 1)}

\* dst_name = f"data/tiles/{self.prefix}"
dst_name == <<"d", "a", "t", "a", "/", "t", "i", "l", "e", "s", "/">> \o prefix
\* the file gdal2tiles writes for tile f: {dst_name}/{zoom}/{x}/{y}.png
local_path(f) ==
    dst_name \o <<"/">> \o str_int(f.z) \o <<"/">> \o str_int(f.x) \o <<"/">>
             \o <<"0", ".", "p", "n", "g">>

\* local_path.parts[4:], wrongly cut two parts further on
parts_from_6(path) == LET parts == split(path, "/") IN SubSeq(parts, 7, Len(parts))
\* local_path.parts[4:]
parts_from_4(path) == LET parts == split(path, "/") IN SubSeq(parts, 5, Len(parts))
\* remote_path = Path("tiles") / "/".join(local_path.parts[4:])
remote_path(path) == <<"t", "i", "l", "e", "s", "/">> \o join(<<"/">>, parts_from_4(path))

NoWalk == [rendered |-> {}, zoom |-> 0, todo |-> {}, current |-> <<>>]

call_create_tiles(remake_mosaic) ==
    /\ targs' = [remake_mosaic |-> remake_mosaic]
    /\ tpc' = "call"

\* if remake_mosaic: self.mosaic_scenes(scale_factor=1.0 / 1000, overwrite=True)
TilesRemake ==
    /\ tpc = "call"
    /\ IF targs.remake_mosaic
       THEN tpc' = "mosaic_scenes" /\ call_mosaic_scenes(1, "given", TRUE)
       ELSE tpc' = "dem" /\ UNCHANGED <<margs, mpc>>
    /\ UNCHANGED <<mosaic_on_disk, targs, scratch, remote, tlog, walk>>
    /\ UNCHANGED <<self, pipeVars, pathVars, runVars>>

\* the mosaic_scenes call ends: on return create_tiles goes on, an exception
\* leaves create_tiles
TilesRemakeEnds ==
    /\ tpc = "mosaic_scenes" /\ mpc[1] \in {"returned", "raised"}
    /\ tpc' = IF mpc[1] = "returned" THEN "dem" ELSE "raised"
    /\ UNCHANGED <<mosaicVars, targs, scratch, remote, tlog, walk>>
    /\ UNCHANGED <<self, pipeVars, pathVars, runVars>>

\* gdal.DEMProcessing(dst_vrt_file, str(self.mosaic_file), "color-relief", ...);
\* os.makedirs(dst_name, exist_ok=True)
DemProcessing ==
    /\ tpc = "dem"
    /\ tpc' = "gdal2tiles"
    /\ UNCHANGED <<mosaicVars, targs, scratch, remote, tlog, walk>>
    /\ UNCHANGED <<self, pipeVars, pathVars, runVars>>

\* gdal2tiles.main([... f"--zoom=0-{max_zoom}", ...]): the call returns when the
\* whole pyramid is on the local disk; without a mosaic to read it fails
Gdal2Tiles ==
    /\ tpc = "gdal2tiles"
    /\ IF mosaic_on_disk = "absent"
       THEN tpc' = "raised" /\ UNCHANGED <<scratch, walk>>
       ELSE \E n \in 1..MaxTilesPerZoom :
               LET files == {local_path(f) : f \in Pyramid(n)}
               IN  /\ scratch' = scratch \cup files
                   /\ walk' = [rendered |-> files, zoom |-> 0, todo |-> {}, current |-> <<>>]
                   /\ tpc' = "rglob"
    /\ UNCHANGED <<mosaicVars, targs, remote, tlog>>
    /\ UNCHANGED <<self, pipeVars, pathVars, runVars>>

\* the files of the scratch tree below zoom directory z
in_zoom_dir(z) ==
    {p \in scratch : startswith(p, dst_name \o <<"/">> \o str_int(z) \o <<"/">>)}

\* for local_path in Path(dst_name).rglob("*"): a directory comes up
\* (local_path.is_file() is false: nothing is done); its files follow
RglobDirectory ==
    /\ tpc = "rglob" /\ walk.todo = {} /\ walk.zoom <= max_zoom
    /\ walk' = [walk EXCEPT !.zoom = walk.zoom + 1, !.todo = in_zoom_dir(walk.zoom)]
    /\ UNCHANGED <<mosaicVars, targs, tpc, scratch, remote, tlog>>
    /\ UNCHANGED <<self, pipeVars, pathVars, runVars>>

\* copy_to_blob_storage(local_path, remote_path):
\*     blob_client.upload_blob(src, overwrite=True)
copy_to_blob_storage(path, name) ==
    /\ remote' = remote \cup {name}
    /\ tlog' = tlog \cup {[op |-> "upload", path |-> path, name |-> name,
                           ok |-> path \in scratch]}

\* a file comes up: remote_path = ...; self.copy_to_blob_storage(local_path, remote_path)
Upload ==
    /\ tpc = "rglob" /\ walk.todo # {}
    /\ \E p \in walk.todo :
          /\ copy_to_blob_storage(p, remote_path(p))
          /\ walk' = [walk EXCEPT !.current = p]
    /\ tpc' = "unlink"
    /\ UNCHANGED <<mosaicVars, targs, scratch>>
    /\ UNCHANGED <<self, pipeVars, pathVars, runVars>>

\* the upload raises (the storage refuses it): the exception leaves create_tiles
UploadRaises ==
    /\ tpc = "rglob" /\ walk.todo # {}
    /\ tpc' = "raised"
    /\ UNCHANGED <<mosaicVars, targs, scratch, remote, tlog, walk>>
    /\ UNCHANGED <<self, pipeVars, pathVars, runVars>>

\* local_path.unlink()
Unlink ==
    /\ tpc = "unlink"
    /\ scratch' = scratch \ {walk.current}
    /\ tlog' = tlog \cup {[op |-> "unlink", path |-> walk.current, name |-> <<>>,
                           ok |-> \E e \in tlog : e.op = "upload" /\ e.path = walk.current]}
    /\ walk' = [walk EXCEPT !.todo = walk.todo \ {walk.current}, !.current = <<>>]
    /\ tpc' = "rglob"
    /\ UNCHANGED <<mosaicVars, targs, remote>>
    /\ UNCHANGED <<self, pipeVars, pathVars, runVars>>

\* rglob is exhausted: create_tiles returns
TilesReturn ==
    /\ tpc = "rglob" /\ walk.todo = {} /\ walk.zoom > max_zoom
    /\ tpc' = "returned"
    /\ UNCHANGED <<mosaicVars, targs, scratch, remote, tlog, walk>>
    /\ UNCHANGED <<self, pipeVars, pathVars, runVars>>

CreateTiles ==
    \/ TilesRemake \/ TilesRemakeEnds \/ DemProcessing \/ Gdal2Tiles
    \/ RglobDirectory \/ Upload \/ UploadRaises \/ Unlink \/ TilesReturn

IdleTiles ==
    /\ targs = [remake_mosaic |-> TRUE]
    /\ tpc = "idle"
    /\ scratch = {} /\ remote = {} /\ tlog = {}
    /\ walk = NoWalk

(***************************************************************************)
(* Spec: process_by_scene on an empty container, then once more on what    *)
(* the first run left (the same scenes, the same transform).               *)
(***************************************************************************)
Rerun ==
    /\ pc = "returned" /\ run = 1
    /\ run' = 2
    /\ call_process_by_scene
    /\ UNCHANGED <<self, world, blobs, writes>>
    /\ UNCHANGED <<pathVars, mosaicVars, tileVars, runVars>>

Scenes == ProcessByScene \/ Rerun

InitScenes ==
    /\ self \in Processors
    /\ world = [t \in Tiles |-> UnknownScenes]
    /\ pc = "loop" /\ idx = 1 /\ k = 1
    /\ results = ResultsNone
    /\ blobs = {} /\ writes = <<>>
    /\ status = [t \in Tiles |-> "pending"]
    /\ raised = NoException
    /\ run = 1
    /\ IdlePath /\ IdleMosaic /\ mosaic_on_disk = "absent" /\ IdleTiles
    /\ rargs = [run_scenes |-> TRUE, mosaic |-> FALSE, tile |-> FALSE,
                remake_mosaic_for_tiles |-> TRUE]
    /\ rpc = "idle"
    /\ client = [kind |-> "none", why |-> "none"]

Init == InitScenes
Next == Scenes
Spec == Init /\ [][Next]_vars

(***************************************************************************)
(* SpecPath: get_path applied to two inputs.  Tile keys have two integer   *)
(* components of one or two digits; years and variable names are short     *)
(* strings over letters, digits and "_", or None.                          *)
(***************************************************************************)
TileKeys == {<<p, r>> : p \in {1, 11}, r \in {1, 11}}
YearLabels == {Year, <<"1">>}
VariableNames == {DatasetId, <<"b">>, <<"b", "_", "1">>}
Inputs ==
    [index : TileKeys,
     year : {None} \cup {Str(y) : y \in YearLabels},
     variable : {None} \cup {Str(v) : v \in VariableNames}]

InitPath ==
    /\ self \in {DefaultProcessor(y) : y \in {None, Str(Year)}}
    /\ inA \in Inputs /\ inB \in Inputs
    /\ pathA = <<>> /\ pathB = <<>>
    /\ IdlePipe /\ IdleMosaic /\ mosaic_on_disk = "absent" /\ IdleTiles
    /\ rargs = [run_scenes |-> TRUE, mosaic |-> FALSE, tile |-> FALSE,
                remake_mosaic_for_tiles |-> TRUE]
    /\ rpc = "idle"
    /\ client = [kind |-> "none", why |-> "none"]

GetPath ==
    /\ pathA = <<>>
    /\ pathA' = get_path(inA.index, inA.year, inA.variable)
    /\ pathB' = get_path(inB.index, inB.year, inB.variable)
    /\ UNCHANGED <<self, inA, inB, pipeVars, mosaicVars, tileVars, runVars>>

SpecPath == InitPath /\ [][GetPath]_vars

(***************************************************************************)
(* SpecMosaic: two invocations of mosaic_scenes on the same Processor      *)
(* configuration (the same prefix, the same destination file), interleaved.*)
(***************************************************************************)
InitMosaic ==
    /\ self \in {DefaultProcessor(y) : y \in {None, Str(Year)}}
    /\ margs \in [Invocations -> [scale_factor : {"None", "given"}, overwrite : BOOLEAN]]
    /\ mpc = [i \in Invocations |-> "call"]
    /\ mosaic_on_disk \in {"absent", "previous"}
    /\ IdlePipe /\ IdlePath /\ IdleTiles
    /\ rargs = [run_scenes |-> TRUE, mosaic |-> FALSE, tile |-> FALSE,
                remake_mosaic_for_tiles |-> TRUE]
    /\ rpc = "idle"
    /\ client = [kind |-> "none", why |-> "none"]

SpecMosaic == InitMosaic /\ [][MosaicScenes]_vars

(***************************************************************************)
(* SpecTiles: one call of create_tiles                                     *)
(***************************************************************************)
InitTiles ==
    /\ self \in {DefaultProcessor(y) : y \in {None, Str(Year)}}
    /\ targs \in [remake_mosaic : BOOLEAN]
    /\ tpc = "call"
    /\ scratch = {} /\ remote = {} /\ tlog = {} /\ walk = NoWalk
    /\ mosaic_on_disk \in {"absent", "previous"}
    /\ IdlePipe /\ IdlePath /\ IdleMosaic
    /\ rargs = [run_scenes |-> TRUE, mosaic |-> FALSE, tile |-> FALSE,
                remake_mosaic_for_tiles |-> TRUE]
    /\ rpc = "idle"
    /\ client = [kind |-> "none", why |-> "none"]

NextTiles == CreateTiles \/ MosaicScenes
SpecTiles == InitTiles /\ [][NextTiles]_vars

(***************************************************************************)
(* run_processor(scene_processor, dataset_id, run_scenes, mosaic, tile,    *)
(*               remake_mosaic_for_tiles)                                  *)
(***************************************************************************)
\* if run_scenes: try: cluster = GatewayCluster(...); cluster.scale(400);
\*     with cluster.get_client() as client: processor.process_by_scene()
\* The cluster is acquired, or its acquisition raises ValueError.
RunStart ==
    /\ rpc = "start"
    /\ IF ~rargs.run_scenes
       THEN /\ rpc' = "mosaic"
            /\ UNCHANGED <<client, pc, idx, k, results, status, raised>>
       ELSE \E acquired \in BOOLEAN :
               IF acquired
               THEN /\ client' = [kind |-> "gateway", why |-> "acquired"]
                    /\ call_process_by_scene
                    /\ rpc' = "try"
               ELSE /\ client' = [kind |-> "none", why |-> "no_gateway"]
                    /\ rpc' = "except"
                    /\ UNCHANGED <<pc, idx, k, results, status, raised>>
    /\ UNCHANGED <<self, world, blobs, writes, run, rargs>>
    /\ UNCHANGED <<pathVars, mosaicVars, tileVars>>

\* process_by_scene ends under the gateway client: on return the try block is
\* over; a ValueError goes to the handler; any other exception leaves run_processor
TryEnds ==
    /\ rpc = "try" /\ pc \in {"returned", "raised"}
    /\ IF pc = "returned"
       THEN rpc' = "mosaic" /\ UNCHANGED client
       ELSE IF raised.exc = "ValueError"
       THEN rpc' = "except" /\ client' = [kind |-> "none", why |-> "scenes_ValueError"]
       ELSE rpc' = "aborted" /\ UNCHANGED client
    /\ UNCHANGED <<self, pipeVars, rargs>>
    /\ UNCHANGED <<pathVars, mosaicVars, tileVars>>

\* except ValueError: with Client() as client: processor.process_by_scene()
ExceptValueError ==
    /\ rpc = "except"
    /\ client' = [kind |-> "local", why |-> client.why]
    /\ call_process_by_scene
    /\ run' = IF pc = "idle" THEN run ELSE run + 1
    /\ rpc' = "handler"
    /\ UNCHANGED <<self, world, blobs, writes, rargs>>
    /\ UNCHANGED <<pathVars, mosaicVars, tileVars>>

\* process_by_scene ends under the local client: an exception leaves run_processor
HandlerEnds ==
    /\ rpc = "handler" /\ pc \in {"returned", "raised"}
    /\ rpc' = IF pc = "returned" THEN "mosaic" ELSE "aborted"
    /\ UNCHANGED <<self, pipeVars, rargs, client>>
    /\ UNCHANGED <<pathVars, mosaicVars, tileVars>>

\* if mosaic: processor.mosaic_scenes()   (scale_factor=None, overwrite=True)
RunMosaic ==
    /\ rpc = "mosaic"
    /\ IF rargs.mosaic
       THEN rpc' = "mosaic_scenes" /\ call_mosaic_scenes(1, "None", TRUE)
       ELSE rpc' = "tile" /\ UNCHANGED <<margs, mpc>>
    /\ UNCHANGED <<self, pipeVars, rargs, client, mosaic_on_disk>>
    /\ UNCHANGED <<pathVars, tileVars>>

\* mosaic_scenes ends: an exception leaves run_processor
MosaicEnds ==
    /\ rpc = "mosaic_scenes" /\ mpc[1] \in {"returned", "raised"}
    /\ rpc' = IF mpc[1] = "returned" THEN "tile" ELSE "aborted"
    /\ UNCHANGED <<self, pipeVars, rargs, client>>
    /\ UNCHANGED <<pathVars, mosaicVars, tileVars>>

\* if tile: processor.create_tiles(remake_mosaic_for_tiles)
RunTile ==
    /\ rpc = "tile"
    /\ IF rargs.tile
       THEN rpc' = "create_tiles" /\ call_create_tiles(rargs.remake_mosaic_for_tiles)
       ELSE rpc' = "done" /\ UNCHANGED <<targs, tpc>>
    /\ UNCHANGED <<self, pipeVars, rargs, client, scratch, remote, tlog, walk>>
    /\ UNCHANGED <<pathVars, mosaicVars>>

\* create_tiles ends: an exception leaves run_processor
TileEnds ==
    /\ rpc = "create_tiles" /\ tpc \in {"returned", "raised"}
    /\ rpc' = IF tpc = "returned" THEN "done" ELSE "aborted"
    /\ UNCHANGED <<self, pipeVars, rargs, client>>
    /\ UNCHANGED <<pathVars, mosaicVars, tileVars>>

RunProcessor ==
    \/ RunStart \/ TryEnds \/ ExceptValueError \/ HandlerEnds
    \/ RunMosaic \/ MosaicEnds \/ RunTile \/ TileEnds

\* the runs considered: year "2020", the default overwrite and scaling flags,
\* every combination of the split flags and of run_processor's own flags
InitRun ==
    /\ self \in {p \in Processors : /\ p.year = Str(Year) /\ ~p.overwrite
                                    /\ p.scale_and_offset /\ p.convert_output_to_int16}
    /\ rargs \in [run_scenes : BOOLEAN, mosaic : BOOLEAN, tile : BOOLEAN,
                  remake_mosaic_for_tiles : BOOLEAN]
    /\ rpc = "start"
    /\ client = [kind |-> "none", why |-> "none"]
    /\ mosaic_on_disk \in {"absent", "previous"}
    /\ IdlePipe /\ IdlePath /\ IdleMosaic /\ IdleTiles

NextRun == RunProcessor \/ ProcessByScene \/ MosaicScenes \/ CreateTiles
SpecRun == InitRun /\ [][NextRun]_vars

(***************************************************************************)
(* Properties of process_by_scene (checked under Spec)                     *)
(***************************************************************************)
\* the write_to_blob_storage calls made for tile t in the current run
WritesOf(t) == {i \in 1..Len(writes) : writes[i].run = run /\ writes[i].tile = t}

\* an object every layer of which has only the two spatial dimensions, or a time
\* or variable dimension of a single label
TwoD(d) ==
    /\ d.time.kind = "dim" => Len(d.time.labels) <= 1
    /\ d.variable.kind = "dim" => Len(d.variable.labels) <= 1

\* C1: when a step from get_stack to write_to_blob_storage raises for tile t,
\* the tile is marked Failed and every tile after t in the grid is still
\* processed: the exception does not end the loop.
C1_FailureDoesNotEndLoop ==
    pc = "raised" =>
        /\ status[raised.tile] = "Failed"
        /\ \A t \in Tiles : t > raised.tile => status[t] # "pending"

\* C2: a tile skipped because its scene collection is empty or because
\* scene_processor returned None causes no write_to_blob_storage call for it,
\* raises no error, and the iteration goes on to the next tile.
C2_SkippedTileWritesNothing ==
    \A t \in Tiles :
        status[t] \in {"empty", "none"} =>
            /\ WritesOf(t) = {}
            /\ raised.tile # t
            /\ idx > t
            /\ pc \in {"loop", "returned"} => raised = NoException

C2_Witness ==
    /\ status[1] = "empty" /\ status[2] = "none"
    /\ pc = "returned"

\* C3: with overwrite=false, a second run of process_by_scene after a completed
\* first run stores nothing: each of its writes targets an existing blob and is
\* a no-op, and every blob is still the one the first run stored.
C3_SecondRunStoresNothing ==
    (run = 2 /\ ~self.overwrite) =>
        /\ \A i \in 1..Len(writes) : writes[i].run = 2 => ~writes[i].stored
        /\ \A b \in blobs : writes[b.etag].run = 1 /\ writes[b.etag].path = b.name

C3_Witness ==
    /\ run = 2 /\ ~self.overwrite /\ pc = "returned"
    /\ \A t \in Tiles : status[t] = "written"
    /\ \E i \in 1..Len(writes) : writes[i].run = 2

\* C4: with split_output_by_year and split_output_by_variable both true, a tile
\* whose transform result has T time labels and V variables gets exactly T x V
\* writes, one per (time label, variable) pair, each a 2-D array written to
\* get_path(tile, time label, variable).
C4_OneArtifactPerYearAndVariable ==
    (self.split_output_by_year /\ self.split_output_by_variable) =>
        \A t \in Tiles :
            status[t] = "written" =>
                /\ Cardinality(WritesOf(t)) = world[t].T * world[t].V
                /\ \A i \in 1..world[t].T, j \in 1..world[t].V :
                      \E n \in WritesOf(t) :
                          /\ writes[n].path = get_path(aoi_by_tile[t], Str(TimeLabel(i)),
                                                       Str(VarName(j)))
                          /\ writes[n].d.time = Scalar(TimeLabel(i))
                          /\ writes[n].d.variable = Scalar(VarName(j))
                          /\ dims(writes[n].d) = {"y", "x"}
                          /\ \A m \in WritesOf(t) :
                                writes[m].path = writes[n].path => m = n

C4_Witness ==
    /\ self.split_output_by_year /\ self.split_output_by_variable
    /\ \E t \in Tiles :
          /\ status[t] = "written"
          /\ world[t].T = MaxT /\ world[t].V = MaxV
          /\ Cardinality(WritesOf(t)) = MaxT * MaxV

\* C10: whatever the split flags and the transform result, every artifact handed
\* to write_to_blob_storage is strictly 2-D: no time or variable dimension of
\* more than one label remains.
C10_EveryArtifactIs2D ==
    \A i \in 1..Len(writes) : TwoD(writes[i].d)

(***************************************************************************)
(* Properties of get_path (checked under SpecPath)                         *)
(***************************************************************************)
\* an input with the defaults filled in: variable None is the dataset id, year
\* None is the configured year
Resolved(in) ==
    [index |-> in.index,
     year |-> IF in.year = None THEN self.year ELSE in.year,
     variable |-> IF in.variable = None THEN Str(self.dataset_id) ELSE in.variable]

\* C5 as stated: two distinct inputs (tile id, year, variable) never produce the
\* same path.
C5_DistinctInputsDistinctPaths ==
    (pathA # <<>> /\ inA # inB) => pathA # pathB

\* C5, amended: two inputs that are distinct once the defaults are filled in
\* never produce the same path.
C5_DistinctResolvedInputsDistinctPaths ==
    (pathA # <<>> /\ Resolved(inA) # Resolved(inB)) => pathA # pathB

C5_Witness ==
    /\ pathA # <<>> /\ pathA # pathB
    /\ inA.index = <<1, 11>> /\ inB.index = <<11, 1>>
    /\ inA.year = inB.year /\ inA.variable = inB.variable
    /\ inA.variable = Str(<<"b", "_", "1">>)

(***************************************************************************)
(* Properties of mosaic_scenes (checked under SpecMosaic)                  *)
(***************************************************************************)
\* C6: when mosaic_scenes is invoked twice concurrently with overwrite=true, once
\* both invocations are over the destination file is a complete mosaic.  (The
\* claim's other half, that no two chunk writes to the file are in progress
\* together, has no instance: no invocation reaches a write.)
C6_BothOverFileComplete ==
    (\A i \in Invocations : margs[i].overwrite /\ mpc[i] \in {"returned", "raised"})
        => mosaic_on_disk = "mosaic"

(***************************************************************************)
(* Properties of create_tiles (checked under SpecTiles)                    *)
(***************************************************************************)
\* C7: at no point during create_tiles are all the rendered tile files of the
\* pyramid in the local scratch directory together.
C7_NeverWholePyramidOnDisk ==
    walk.rendered # {} => ~(walk.rendered \subseteq scratch)

\* the last n parts of a path
last_parts(path, n) ==
    LET parts == split(path, "/")
    IN  IF Len(parts) <= n THEN parts ELSE SubSeq(parts, Len(parts) - n + 1, Len(parts))

\* C8: after create_tiles returns, every rendered tile file was uploaded under
\* tiles/ with its zoom/x/y suffix kept, was uploaded before it was deleted, and
\* is no longer in the local scratch directory.
C8_AllUploadedThenDeleted ==
    tpc = "returned" =>
        /\ scratch = {}
        /\ \A p \in walk.rendered :
              /\ \E e \in tlog :
                    /\ e.op = "upload" /\ e.path = p /\ e.ok
                    /\ e.name \in remote
                    /\ startswith(e.name, <<"t", "i", "l", "e", "s", "/">>)
                    /\ last_parts(e.name, 3) = last_parts(p, 3)
              /\ \E e \in tlog : e.op = "unlink" /\ e.path = p /\ e.ok
              /\ \A e \in tlog : (e.op = "unlink" /\ e.path = p) => e.ok

C8_Witness ==
    /\ tpc = "returned"
    /\ Cardinality(walk.rendered) = (max_zoom + 1) * MaxTilesPerZoom
    /\ Cardinality(remote) = Cardinality(walk.rendered)

(***************************************************************************)
(* Properties of run_processor (checked under SpecRun)                     *)
(***************************************************************************)
\* C9: with run_scenes=true, when acquiring the gateway cluster fails, the
\* failure is caught, process_by_scene runs under the local client, and (once
\* it has returned) the mosaic and tile steps still run when requested.
C9_FallbackThenLaterSteps ==
    (client.why = "no_gateway" /\ rpc \in {"done", "aborted"}) =>
        /\ client.kind = "local"
        /\ pc = "returned" =>
              /\ rpc = "done"
              /\ rargs.mosaic => mpc[1] = "returned"
              /\ rargs.tile => tpc # "idle"

(***************************************************************************)
(* Processor.build_vrt: the blobs the mosaic references                    *)
(***************************************************************************)
\* [blob for blob in list_blobs() if blob.name.startswith(self.prefix)]
vrt_blobs == {b \in blobs : startswith(b.name, prefix)}

\* C11: for every configuration (year set or None, either split flag on or
\* off), every path under which process_by_scene writes an artifact starts with
\* self.prefix, so every stored artifact is among the blobs build_vrt selects.
C11_EveryArtifactUnderPrefix ==
    /\ \A i \in 1..Len(writes) : startswith(writes[i].path, prefix)
    /\ blobs \subseteq vrt_blobs

====
